---- MODULE Spec2Model ----
(***************************************************************************)
(* Star counter (solution.js): a page of "wrapper" lines holding star      *)
(* icons; the script counts the icons of each line, shows a coloured       *)
(* "<n> STARS" label per line and a page total, adds four buttons per line *)
(* and toggles the label's weight on a line click.                         *)
(*                                                                         *)
(* Star amounts are kept in HALF-STAR UNITS throughout (the source uses    *)
(* 0.5 steps): a full star counts 2, a half star 1, the limits 1..5 are    *)
(* 2..10, and the button deltas -1, +1, -0.5, +0.5 are -2, 2, -1, 1.       *)
(* NumberText turns a half-unit amount back into the text JavaScript       *)
(* prints for it ("3", "3.5").                                             *)
(*                                                                         *)
(* The page is taken to have its #main container, and its lines to hold    *)
(* star icons only, as the script assumes; the icons supplied are not      *)
(* otherwise constrained (any number, any order).                          *)
(***************************************************************************)
EXTENDS Integers, Sequences, FiniteSets, TLC

\* ---------------------------------------------------------------- bounds
MaxElements == 7
MaxWarnings == 2

\* ------------------------------------------------------------- constants
STAR_LIMITS_MIN == 1
STAR_LIMITS_MAX == 5
COLOR_THRESHOLDS_RED == 2

COLORS == [RED |-> "red", YELLOW |-> "yellow", GREEN |-> "green"]

CSS_CLASSES == [STAR_COUNT    |-> "star-count",
                STAR_CONTROLS |-> "star-controls",
                FULL_STAR     |-> "fa-star",
                HALF_STAR     |-> "fa-star-half-o"]

COUNT_DISPLAY_STYLES == [fontWeight |-> "bold"]

\* ----------------------------------------------------------------- state
VARIABLES
    lines,                \* the .wrapper elements of the page, in document order
    totalRegions,         \* number of #total-stars-display elements in #main
    totalText,            \* textContent of the total display
    cachedMainContainer,  \* TRUE when the module-level cache holds #main
    cachedTotalDisplay,   \* TRUE when the module-level cache holds the total display
    warnings,             \* console.warn calls so far
    last,                 \* the event handled last: its kind, its line, and for a
                          \* button its change and whether that passed the limits
    script,               \* scenario runs: the button deltas to apply to line 1
    step,                 \* scenario runs: how many of them have been applied
    origin                \* scenario runs: the markers of line 1 as supplied

vars == <<lines, totalRegions, totalText, cachedMainContainer,
          cachedTotalDisplay, warnings, last, script, step, origin>>

\* ------------------------------------------------------ DOM child lists
\* A line's children are modelled by their class names, in document order.
Positions(children, cls) == {i \in DOMAIN children : children[i] = cls}

SetMax(S) == CHOOSE x \in S : \A y \in S : y <= x

SetMin(S) == CHOOSE x \in S : \A y \in S : x <= y

\* element.querySelector: position of the first match, 0 for null
querySelector(children, cls) ==
    IF Positions(children, cls) = {} THEN 0 ELSE SetMin(Positions(children, cls))

\* parent.insertBefore(node, ref): ref = 0 (null) appends
insertBefore(children, node, ref) ==
    IF ref = 0 THEN Append(children, node)
    ELSE SubSeq(children, 1, ref - 1) \o <<node>> \o SubSeq(children, ref, Len(children))

\* node.remove()
removeAt(children, pos) ==
    SubSeq(children, 1, pos - 1) \o SubSeq(children, pos + 1, Len(children))

\* the star icons of a line, in order
Markers(children) ==
    SelectSeq(children, LAMBDA c : c \in {CSS_CLASSES.FULL_STAR, CSS_CLASSES.HALF_STAR})

\* ------------------------------------------------------- business logic
countStarsInLine(children) ==
    LET fullStarsCount == Cardinality(Positions(children, CSS_CLASSES.FULL_STAR))
        halfStarsCount == Cardinality(Positions(children, CSS_CLASSES.HALF_STAR))
    IN  [fullStars |-> fullStarsCount,
         halfStars |-> halfStarsCount,
         total     |-> 2 * fullStarsCount + halfStarsCount]

\* variant: the red threshold taken as strict (total < 2)
getColorForStarCount_Strict(starCount) ==
    IF starCount.halfStars > 0 THEN COLORS.GREEN
    ELSE IF starCount.total < 2 * COLOR_THRESHOLDS_RED THEN COLORS.RED
    ELSE COLORS.YELLOW

getColorForStarCount(starCount) ==
    IF starCount.halfStars > 0 THEN COLORS.GREEN
    ELSE IF starCount.total <= 2 * COLOR_THRESHOLDS_RED THEN COLORS.RED
    ELSE COLORS.YELLOW

\* variant: the upper limit is not tested
isStarChangeAllowed_NoMax(currentTotal, changeAmount) ==
    LET newTotal == currentTotal + changeAmount
    IN  newTotal >= 2 * STAR_LIMITS_MIN

\* variant: the lower limit tested as "more than no star"
isStarChangeAllowed_Positive(currentTotal, changeAmount) ==
    LET newTotal == currentTotal + changeAmount
    IN  newTotal > 0 /\ newTotal <= 2 * STAR_LIMITS_MAX

\* variant: the limits tested on the current total, the change left out
isStarChangeAllowed_Current(currentTotal, changeAmount) ==
    currentTotal >= 2 * STAR_LIMITS_MIN /\ currentTotal <= 2 * STAR_LIMITS_MAX

\* variant: the upper limit tested as strict (five stars cannot be reached)
isStarChangeAllowed_StrictMax(currentTotal, changeAmount) ==
    LET newTotal == currentTotal + changeAmount
    IN  newTotal >= 2 * STAR_LIMITS_MIN /\ newTotal < 2 * STAR_LIMITS_MAX

\* variant: the lower limit tested as strict (one star cannot be reached)
isStarChangeAllowed_StrictMin(currentTotal, changeAmount) ==
    LET newTotal == currentTotal + changeAmount
    IN  newTotal > 2 * STAR_LIMITS_MIN /\ newTotal <= 2 * STAR_LIMITS_MAX

isStarChangeAllowed(currentTotal, changeAmount) ==
    LET newTotal == currentTotal + changeAmount
    IN  newTotal >= 2 * STAR_LIMITS_MIN /\ newTotal <= 2 * STAR_LIMITS_MAX

\* `${n}` for a multiple of 0.5 given in half units
NumberText(halves) ==
    IF halves % 2 = 0 THEN ToString(halves \div 2)
    ELSE ToString(halves \div 2) \o ".5"

\* --------------------------------------------------------- DOM utilities
createCountDisplayElement(line) ==
    [line EXCEPT !.children = Append(@, CSS_CLASSES.STAR_COUNT),
                 !.weight = COUNT_DISPLAY_STYLES.fontWeight]

findStarInsertionPoint(children) ==
    IF querySelector(children, CSS_CLASSES.STAR_COUNT) # 0
    THEN querySelector(children, CSS_CLASSES.STAR_COUNT)
    ELSE querySelector(children, CSS_CLASSES.STAR_CONTROLS)

insertStarElement(children, starElement, before) ==
    LET targetElement == IF before # 0 THEN before ELSE findStarInsertionPoint(children)
    IN  IF targetElement # 0 THEN insertBefore(children, starElement, targetElement)
        ELSE Append(children, starElement)

\* ------------------------------------------------------- display updates
\* variant: the display's styles are applied again at every update
updateLineDisplay_Restyle(line, count) ==
    LET shown == IF querySelector(line.children, CSS_CLASSES.STAR_COUNT) = 0
                 THEN createCountDisplayElement(line) ELSE line
    IN  [shown EXCEPT !.text = NumberText(count.total) \o " STARS",
                      !.color = getColorForStarCount(count),
                      !.weight = COUNT_DISPLAY_STYLES.fontWeight]

updateLineDisplay(line, count) ==
    LET shown == IF querySelector(line.children, CSS_CLASSES.STAR_COUNT) = 0
                 THEN createCountDisplayElement(line) ELSE line
    IN  [shown EXCEPT !.text = NumberText(count.total) \o " STARS",
                      !.color = getColorForStarCount(count)]

RECURSIVE SumTotals(_)
\* sum of the totals of a sequence of star counts
SumTotals(starCounts) ==
    IF starCounts = <<>> THEN 0
    ELSE Head(starCounts).total + SumTotals(Tail(starCounts))

calculateTotalFromCounts(starCounts) == SumTotals(starCounts)

calculateTotalStars(allLines) ==
    SumTotals([i \in DOMAIN allLines |-> countStarsInLine(allLines[i].children)])

TotalTextFor(total) == "Total: " \o NumberText(total) \o " STARS"

\* ----------------------------------------------------- star manipulation
\* variant: the new full star goes to the end of the icons, after a half star
addFullStar_AtEnd(children) ==
    IF ~isStarChangeAllowed(countStarsInLine(children).total, 2) THEN children
    ELSE insertStarElement(children, CSS_CLASSES.FULL_STAR, findStarInsertionPoint(children))

addFullStar(children) ==
    IF ~isStarChangeAllowed(countStarsInLine(children).total, 2) THEN children
    ELSE LET halfStar == querySelector(children, CSS_CLASSES.HALF_STAR)
             before   == IF halfStar # 0 THEN halfStar ELSE findStarInsertionPoint(children)
         IN  insertStarElement(children, CSS_CLASSES.FULL_STAR, before)

removeFullStar(children) ==
    IF ~isStarChangeAllowed(countStarsInLine(children).total, -2) THEN children
    ELSE LET allFullStars == Positions(children, CSS_CLASSES.FULL_STAR)
         IN  IF allFullStars # {} THEN removeAt(children, SetMax(allFullStars))
             ELSE children

\* variant: no merge, a half star is always added
addHalfStar_NoMerge(children) ==
    IF ~isStarChangeAllowed(countStarsInLine(children).total, 1) THEN children
    ELSE insertStarElement(children, CSS_CLASSES.HALF_STAR, findStarInsertionPoint(children))

addHalfStar(children) ==
    IF ~isStarChangeAllowed(countStarsInLine(children).total, 1) THEN children
    ELSE LET existingHalfStar == querySelector(children, CSS_CLASSES.HALF_STAR)
         IN  IF existingHalfStar # 0
             THEN LET rest         == removeAt(children, existingHalfStar)
                      allFullStars == Positions(rest, CSS_CLASSES.FULL_STAR)
                      before       == findStarInsertionPoint(rest)
                  IN  IF allFullStars # {}
                      THEN LET lastFullStar == SetMax(allFullStars)
                               nextSibling  == IF lastFullStar < Len(rest)
                                               THEN lastFullStar + 1 ELSE 0
                           IN  insertBefore(rest, CSS_CLASSES.FULL_STAR,
                                            IF nextSibling # 0 THEN nextSibling ELSE before)
                      ELSE insertStarElement(rest, CSS_CLASSES.FULL_STAR, before)
             ELSE insertStarElement(children, CSS_CLASSES.HALF_STAR,
                                    findStarInsertionPoint(children))

\* variant: the split converts the first full star, not the last
removeHalfStar_FirstFull(children) ==
    IF ~isStarChangeAllowed(countStarsInLine(children).total, -1) THEN children
    ELSE LET existingHalfStar == querySelector(children, CSS_CLASSES.HALF_STAR)
         IN  IF existingHalfStar # 0 THEN removeAt(children, existingHalfStar)
             ELSE LET firstFullStar == querySelector(children, CSS_CLASSES.FULL_STAR)
                  IN  IF firstFullStar # 0
                      THEN removeAt(insertBefore(children, CSS_CLASSES.HALF_STAR,
                                                 firstFullStar),
                                    firstFullStar + 1)
                      ELSE children

\* variant: without a half star the last full star is removed and not replaced
removeHalfStar_DropsFull(children) ==
    IF ~isStarChangeAllowed(countStarsInLine(children).total, -1) THEN children
    ELSE LET existingHalfStar == querySelector(children, CSS_CLASSES.HALF_STAR)
         IN  IF existingHalfStar # 0 THEN removeAt(children, existingHalfStar)
             ELSE LET allFullStars == Positions(children, CSS_CLASSES.FULL_STAR)
                  IN  IF allFullStars # {} THEN removeAt(children, SetMax(allFullStars))
                      ELSE children

removeHalfStar(children) ==
    IF ~isStarChangeAllowed(countStarsInLine(children).total, -1) THEN children
    ELSE LET existingHalfStar == querySelector(children, CSS_CLASSES.HALF_STAR)
         IN  IF existingHalfStar # 0 THEN removeAt(children, existingHalfStar)
             ELSE LET allFullStars == Positions(children, CSS_CLASSES.FULL_STAR)
                  IN  IF allFullStars # {}
                      THEN LET lastFullStar == SetMax(allFullStars)
                           IN  removeAt(insertBefore(children, CSS_CLASSES.HALF_STAR,
                                                     lastFullStar),
                                        lastFullStar + 1)
                      ELSE children

\* variant: the two half-star branches exchanged
applyStarChange_HalfSwapped(children, changeAmount) ==
    CASE changeAmount = 2  -> addFullStar(children)
      [] changeAmount = -2 -> removeFullStar(children)
      [] changeAmount = 1  -> removeHalfStar(children)
      [] changeAmount = -1 -> addHalfStar(children)
      [] OTHER -> children

\* the branch of handleStarChange that changes the icons
applyStarChange(children, changeAmount) ==
    CASE changeAmount = 2  -> addFullStar(children)
      [] changeAmount = -2 -> removeFullStar(children)
      [] changeAmount = 1  -> addHalfStar(children)
      [] changeAmount = -1 -> removeHalfStar(children)
      [] OTHER -> children

\* variant: the line's display is not updated after the change
handleStarChange_NoLineUpdate(line, changeAmount) ==
    IF ~isStarChangeAllowed(countStarsInLine(line.children).total, changeAmount)
    THEN line
    ELSE [line EXCEPT !.children = applyStarChange(@, changeAmount)]

\* handleStarChange, the part that acts on the line itself
handleStarChange(line, changeAmount) ==
    IF ~isStarChangeAllowed(countStarsInLine(line.children).total, changeAmount)
    THEN line
    ELSE LET changed == [line EXCEPT !.children = applyStarChange(@, changeAmount)]
         IN  updateLineDisplay(changed, countStarsInLine(changed.children))

\* ---------------------------------------------------- interactive parts
\* the four buttons of a control region, in creation order
buttons == <<[text |-> "Remove 1 Star",   change |-> -2],
             [text |-> "Add 1 Star",      change |-> 2],
             [text |-> "Remove 0.5 Star", change |-> -1],
             [text |-> "Add 0.5 Star",    change |-> 1]>>

addButtonsToLine(line) ==
    IF querySelector(line.children, CSS_CLASSES.STAR_CONTROLS) # 0 THEN line
    ELSE [line EXCEPT !.children = Append(@, CSS_CLASSES.STAR_CONTROLS)]

\* window.getComputedStyle(el).fontWeight of an inline weight, as a number
computedFontWeight(weight) == IF weight = "bold" THEN 700 ELSE 400

\* variant: the computed weight compared with the keyword only, never matching
toggleBold_KeywordOnly(line) ==
    IF querySelector(line.children, CSS_CLASSES.STAR_COUNT) = 0 THEN line
    ELSE LET currentWeight == computedFontWeight(line.weight)
             isBold        == FALSE
         IN  [line EXCEPT !.weight = IF isBold THEN "normal" ELSE "bold"]

toggleBold(line) ==
    IF querySelector(line.children, CSS_CLASSES.STAR_COUNT) = 0 THEN line
    ELSE LET currentWeight == computedFontWeight(line.weight)
             isBold        == currentWeight = 700 \/ currentWeight >= 700
         IN  [line EXCEPT !.weight = IF isBold THEN "normal" ELSE "bold"]

\* variant: the listener is attached without looking at the data attribute
attachClickHandler_NoGuard(line) ==
    [line EXCEPT !.attached = TRUE, !.handlers = @ + 1]

\* one pass of attachClickHandlers over a line
attachClickHandler(line) ==
    IF line.attached THEN line
    ELSE [line EXCEPT !.attached = TRUE, !.handlers = @ + 1]

RECURSIVE runClickHandlers(_, _)
\* a click on the line runs every listener attached to it
runClickHandlers(line, n) ==
    IF n = 0 THEN line ELSE runClickHandlers(toggleBold(line), n - 1)

\* ------------------------------------------------------- the page loaded
MarkerSeqs(n) ==
    UNION {[1..k -> {CSS_CLASSES.FULL_STAR, CSS_CLASSES.HALF_STAR}] : k \in 0..n}

SuppliedLine(markers) ==
    [children |-> markers, text |-> "", color |-> "", weight |-> "",
     attached |-> FALSE, handlers |-> 0]

RECURSIVE PagesOf(_, _)
\* the pages of n lines that hold at most `icons` star icons in all
PagesOf(n, icons) ==
    IF n = 0 THEN {<<>>}
    ELSE UNION {{<<SuppliedLine(m)>> \o p : p \in PagesOf(n - 1, icons - Len(m))} :
                m \in MarkerSeqs(icons)}

\* A handler acts on the one line it closes over and the total sums over all
\* lines, so pages of no line, one line and two lines are modelled: line 2
\* stands for every other line of the page.
LineCounts == {0, 1, 2}

\* the pages supplied: up to MaxElements elements in all, lines and the icons
\* in them, the icons being full and half stars in any number and order
Pages == UNION {PagesOf(n, MaxElements - n) : n \in LineCounts}

PageInit ==
    /\ lines \in Pages
    /\ totalRegions = 0
    /\ totalText = ""
    /\ cachedMainContainer = FALSE
    /\ cachedTotalDisplay = FALSE
    /\ warnings = 0
    /\ last = [op |-> "load", line |-> 0, change |-> 0, accepted |-> FALSE]

Init ==
    /\ PageInit
    /\ script = <<>>
    /\ step = 0
    /\ origin = <<>>

\* ---------------------------------------------------------------- actions
\* variant: the updates run although no line was found
Initialize_NoReturn ==
    /\ last' = [op |-> "init", line |-> 0, change |-> 0, accepted |-> FALSE]
    /\ Len(lines) = 0 => warnings < MaxWarnings
    /\ warnings' = IF Len(lines) = 0 THEN warnings + 1 ELSE warnings
    /\ LET starCounts == [i \in DOMAIN lines |-> countStarsInLine(lines[i].children)]
           displayed  == [i \in DOMAIN lines |-> updateLineDisplay(lines[i], starCounts[i])]
           handled    == [i \in DOMAIN lines |-> attachClickHandler(displayed[i])]
       IN  /\ lines' = [i \in DOMAIN lines |-> addButtonsToLine(handled[i])]
           /\ totalText' = TotalTextFor(calculateTotalFromCounts(starCounts))
           /\ cachedTotalDisplay' = TRUE
           /\ totalRegions' = IF ~cachedTotalDisplay /\ totalRegions = 0
                               THEN 1 ELSE totalRegions
           /\ cachedMainContainer' = IF ~cachedTotalDisplay /\ totalRegions = 0
                                      THEN TRUE ELSE cachedMainContainer
    /\ UNCHANGED <<script, step, origin>>

\* getTotalDisplay + textContent assignment of updateTotalDisplay
UpdateTotalDisplay(total) ==
    /\ totalText' = TotalTextFor(total)
    /\ cachedTotalDisplay' = TRUE
    /\ totalRegions' = IF ~cachedTotalDisplay /\ totalRegions = 0 THEN 1 ELSE totalRegions
    /\ cachedMainContainer' =
           IF ~cachedTotalDisplay /\ totalRegions = 0 THEN TRUE ELSE cachedMainContainer

\* initializeStarCounter()
Initialize ==
    /\ last' = [op |-> "init", line |-> 0, change |-> 0, accepted |-> FALSE]
    /\ IF Len(lines) = 0
       THEN /\ warnings < MaxWarnings
            /\ warnings' = warnings + 1
            /\ UNCHANGED <<lines, totalRegions, totalText, cachedMainContainer,
                           cachedTotalDisplay>>
       ELSE LET starCounts == [i \in DOMAIN lines |-> countStarsInLine(lines[i].children)]
                displayed  == [i \in DOMAIN lines |-> updateLineDisplay(lines[i], starCounts[i])]
                handled    == [i \in DOMAIN lines |-> attachClickHandler(displayed[i])]
            IN  /\ lines' = [i \in DOMAIN lines |-> addButtonsToLine(handled[i])]
                /\ UpdateTotalDisplay(calculateTotalFromCounts(starCounts))
                /\ UNCHANGED warnings
    /\ UNCHANGED <<script, step, origin>>

\* variant: the total display is not updated after the change
ClickButton_NoTotalUpdate(l, b) ==
    LET changeAmount == buttons[b].change
        accepted     == isStarChangeAllowed(countStarsInLine(lines[l].children).total,
                                            changeAmount)
    IN  /\ querySelector(lines[l].children, CSS_CLASSES.STAR_CONTROLS) # 0
        /\ lines' = [lines EXCEPT ![l] = handleStarChange(@, changeAmount)]
        /\ UNCHANGED <<totalRegions, totalText, cachedMainContainer, cachedTotalDisplay>>
        /\ last' = [op |-> "button", line |-> l, change |-> changeAmount,
                    accepted |-> accepted]
        /\ UNCHANGED warnings

\* variant: the click goes on to the line's own click listeners
ClickButton_Propagates(l, b) ==
    LET changeAmount == buttons[b].change
        accepted     == isStarChangeAllowed(countStarsInLine(lines[l].children).total,
                                            changeAmount)
        changed      == handleStarChange(lines[l], changeAmount)
    IN  /\ querySelector(lines[l].children, CSS_CLASSES.STAR_CONTROLS) # 0
        /\ lines' = [lines EXCEPT ![l] = runClickHandlers(changed, changed.handlers)]
        /\ IF accepted
           THEN UpdateTotalDisplay(calculateTotalStars(lines'))
           ELSE UNCHANGED <<totalRegions, totalText, cachedMainContainer, cachedTotalDisplay>>
        /\ last' = [op |-> "button", line |-> l, change |-> changeAmount,
                    accepted |-> accepted]
        /\ UNCHANGED warnings

\* variant: every listener acts on the last line of the page
ClickButton_LastLine(l, b) ==
    LET changeAmount == buttons[b].change
        target       == Len(lines)
        accepted     == isStarChangeAllowed(countStarsInLine(lines[target].children).total,
                                            changeAmount)
    IN  /\ querySelector(lines[l].children, CSS_CLASSES.STAR_CONTROLS) # 0
        /\ lines' = [lines EXCEPT ![target] = handleStarChange(@, changeAmount)]
        /\ IF accepted
           THEN UpdateTotalDisplay(calculateTotalStars(lines'))
           ELSE UNCHANGED <<totalRegions, totalText, cachedMainContainer, cachedTotalDisplay>>
        /\ last' = [op |-> "button", line |-> l, change |-> changeAmount,
                    accepted |-> accepted]
        /\ UNCHANGED warnings

\* the click listener of button b of line l; e.stopPropagation() keeps the
\* click from the line's own listeners, so only handleStarChange runs
ClickButton(l, b) ==
    LET changeAmount == buttons[b].change
        accepted     == isStarChangeAllowed(countStarsInLine(lines[l].children).total,
                                            changeAmount)
    IN  /\ querySelector(lines[l].children, CSS_CLASSES.STAR_CONTROLS) # 0
        /\ lines' = [lines EXCEPT ![l] = handleStarChange(@, changeAmount)]
        /\ IF accepted
           THEN UpdateTotalDisplay(calculateTotalStars(lines'))
           ELSE UNCHANGED <<totalRegions, totalText, cachedMainContainer, cachedTotalDisplay>>
        /\ last' = [op |-> "button", line |-> l, change |-> changeAmount,
                    accepted |-> accepted]
        /\ UNCHANGED warnings

ButtonClick(l, b) ==
    /\ ClickButton(l, b)
    /\ UNCHANGED <<script, step, origin>>

\* a click on line l outside its buttons, once the line has a click listener
LineClick(l) ==
    /\ lines[l].handlers > 0
    /\ lines' = [lines EXCEPT ![l] = runClickHandlers(@, @.handlers)]
    /\ last' = [op |-> "click", line |-> l, change |-> 0, accepted |-> FALSE]
    /\ UNCHANGED <<totalRegions, totalText, cachedMainContainer, cachedTotalDisplay,
                   warnings, script, step, origin>>

Next ==
    \/ Initialize
    \/ \E l \in DOMAIN lines : \E b \in DOMAIN buttons : ButtonClick(l, b)
    \/ \E l \in DOMAIN lines : LineClick(l)

Spec == Init /\ [][Next]_vars

\* ------------------------------------------------------- scenario runs
\* A scenario run loads a page, initializes once and then presses the buttons
\* of line 1 in the order a script gives.
\* +1, +0.5, +0.5, then -1 four times
RemoveScenario == <<2, 1, 1, -2, -2, -2, -2>>

\* +0.5, then -0.5
MergeSplitScenario == <<1, -1>>

ScenarioScripts == {RemoveScenario, MergeSplitScenario}

ScenarioInit ==
    /\ PageInit
    /\ Len(lines) >= 1
    /\ script \in ScenarioScripts
    /\ step = 0
    /\ origin = lines[1].children

ScenarioInitialize ==
    /\ last.op = "load"
    /\ Initialize

ScenarioStep ==
    /\ last.op # "load"
    /\ step < Len(script)
    /\ \E b \in DOMAIN buttons :
          /\ buttons[b].change = script[step + 1]
          /\ ClickButton(1, b)
    /\ step' = step + 1
    /\ UNCHANGED <<script, origin>>

ScenarioNext == ScenarioInitialize \/ ScenarioStep

ScenarioSpec == ScenarioInit /\ [][ScenarioNext]_vars

\* ================================================================ claims
\* Amounts below are in half-star units: the range [1, 5] is 2..10.
FullCount(children) == Len(SelectSeq(children, LAMBDA c : c = "fa-star"))

HalfCount(children) == Len(SelectSeq(children, LAMBDA c : c = "fa-star-half-o"))

HalfUnits(children) == 2 * FullCount(children) + HalfCount(children)

InLimits(halves) == halves \in 2..10

RECURSIVE PageHalfUnits(_)
PageHalfUnits(page) ==
    IF page = <<>> THEN 0 ELSE HalfUnits(Head(page).children) + PageHalfUnits(Tail(page))

\* at most one half star, and it is the last icon
CanonicalOrder(children) ==
    LET m == Markers(children)
    IN  /\ HalfCount(m) <= 1
        /\ \A i \in DOMAIN m : m[i] = "fa-star-half-o" => i = Len(m)

\* initializeStarCounter has run on a page that has lines
Initialized == last.op # "load" /\ Len(lines) >= 1

\* the last event was a button of a line, and its change passed the limits
LastAccepted(l, change) ==
    last.op = "button" /\ last.line = l /\ last.accepted /\ last.change = change

LastRejected(l, change) ==
    last.op = "button" /\ last.line = l /\ ~last.accepted /\ last.change = change

\* C1: whatever icons a line held, a step that changes the line's icons leaves
\* the line with a total within [1, 5].
C1_AcceptedMutationInRange ==
    [][\A l \in DOMAIN lines :
          Markers(lines'[l].children) # Markers(lines[l].children)
              => InLimits(HalfUnits(lines'[l].children))]_vars

\* a line supplied with six full stars has lost one to an accepted -1
C1_Witness ==
    /\ LastAccepted(1, -2)
    /\ Len(lines) = 1
    /\ Markers(lines[1].children) = [i \in 1..5 |-> "fa-star"]

\* C2 as stated: in every reachable state, the page as supplied included, every
\* line's total is within [1, 5].
C2_TotalAlwaysInRange ==
    \A l \in DOMAIN lines : InLimits(HalfUnits(lines[l].children))

\* C2 amended: a line whose total is within [1, 5] keeps a total within [1, 5]
\* through initialization, every button and every line click.
C2_InRangeStaysInRange ==
    [][\A l \in DOMAIN lines :
          InLimits(HalfUnits(lines[l].children))
              => InLimits(HalfUnits(lines'[l].children))]_vars

\* a line at one star has had -0.5 refused
C2_Witness ==
    /\ LastRejected(1, -1)
    /\ Len(lines) = 1
    /\ HalfUnits(lines[1].children) = 2

\* C3: a line with at most one half star has at most one half star after every
\* step.
C3_AtMostOneHalf ==
    [][\A l \in DOMAIN lines :
          HalfCount(lines[l].children) <= 1 => HalfCount(lines'[l].children) <= 1]_vars

\* +0.5 has merged the only half star of a line into a full star
C3_Witness ==
    /\ LastAccepted(1, 1)
    /\ Len(lines) = 1
    /\ HalfCount(lines[1].children) = 0
    /\ FullCount(lines[1].children) = 3

\* C4: a line in canonical order (full stars first, then at most one half star)
\* is in canonical order after every step, so a half star is the last icon.
C4_CanonicalOrderKept ==
    [][\A l \in DOMAIN lines :
          CanonicalOrder(lines[l].children) => CanonicalOrder(lines'[l].children)]_vars

\* +1 has been accepted on a line that holds a half star, which is still last
C4_Witness ==
    /\ LastAccepted(1, 2)
    /\ Len(lines) = 1
    /\ Markers(lines[1].children) = <<"fa-star", "fa-star", "fa-star-half-o">>

\* C5: a button whose change would take its line's total outside [1, 5] changes
\* nothing: no line (icons, text, colour, weight), not the total display.
C5_RejectedIsNoOp ==
    [][(/\ last'.op = "button"
        /\ ~InLimits(HalfUnits(lines[last'.line].children) + last'.change))
          => /\ lines' = lines
             /\ totalText' = totalText
             /\ totalRegions' = totalRegions
             /\ warnings' = warnings]_vars

\* +1 has been refused on a line at five stars, next to a line at half a star
C5_Witness ==
    /\ LastRejected(1, 2)
    /\ Len(lines) = 2
    /\ HalfUnits(lines[1].children) = 10
    /\ HalfUnits(lines[2].children) = 1

\* C6: once initialized on a page with lines, the total display exists and
\* shows "Total: <sum> STARS" for the sum of the current totals of all lines.
C6_TotalShowsSum ==
    Initialized =>
        /\ totalRegions >= 1
        /\ totalText = "Total: " \o NumberText(PageHalfUnits(lines)) \o " STARS"

\* +0.5 has been accepted on a page of two lines whose sum is not whole
C6_Witness ==
    /\ LastAccepted(1, 1)
    /\ Len(lines) = 2
    /\ \A l \in DOMAIN lines : HalfUnits(lines[l].children) >= 2
    /\ PageHalfUnits(lines) % 2 = 1

\* C7: once initialized, every line has a count display whose text is
\* "<total> STARS" for the line's current icons and whose colour is the one the
\* classifier gives the line's current count.
C7_LineDisplayCurrent ==
    Initialized =>
        \A l \in DOMAIN lines :
            /\ querySelector(lines[l].children, "star-count") # 0
            /\ lines[l].text = NumberText(HalfUnits(lines[l].children)) \o " STARS"
            /\ lines[l].color = getColorForStarCount(countStarsInLine(lines[l].children))

\* -0.5 has split a full star and the line's display has turned green
C7_Witness ==
    /\ LastAccepted(1, -1)
    /\ Len(lines) = 1
    /\ Markers(lines[1].children) = <<"fa-star", "fa-star", "fa-star-half-o">>
    /\ lines[1].color = "green"
    /\ lines[1].text = "2.5 STARS"

\* the colour the claim gives a count
TableColor(full, half) ==
    IF half > 0 THEN "green"
    ELSE IF 2 * full + half <= 4 THEN "red"
    ELSE "yellow"

\* C8: the classifier gives green whenever there is a half star, else red for
\* a total of at most 2, else yellow; (2, no half) is red, (2.5, a half) is
\* green and (3, no half) is yellow.
C8_ClassifierTable ==
    /\ \A l \in DOMAIN lines :
          querySelector(lines[l].children, "star-count") # 0
              => lines[l].color = TableColor(FullCount(lines[l].children),
                                             HalfCount(lines[l].children))
    /\ getColorForStarCount([fullStars |-> 2, halfStars |-> 0, total |-> 4]) = "red"
    /\ getColorForStarCount([fullStars |-> 2, halfStars |-> 1, total |-> 5]) = "green"
    /\ getColorForStarCount([fullStars |-> 3, halfStars |-> 0, total |-> 6]) = "yellow"

\* a line of two full stars is shown red next to a line of two and a half, green
C8_Witness ==
    /\ Len(lines) = 2
    /\ Markers(lines[1].children) = <<"fa-star", "fa-star">>
    /\ lines[1].color = "red"
    /\ Markers(lines[2].children) = <<"fa-star", "fa-star", "fa-star-half-o">>
    /\ lines[2].color = "green"

\* C9 as stated: on any line that has a half star, +0.5 then -0.5 restores the
\* icons the line had.
C9_MergeSplitRestoresAny ==
    (script = MergeSplitScenario /\ step = 2 /\ HalfCount(origin) >= 1)
        => Markers(lines[1].children) = origin

\* C9 amended: on a line in canonical order with exactly one half star and a
\* total within [1, 5], +0.5 merges the half star into a full star and -0.5
\* then restores the icons the line had.
C9_MergeSplitRestoresCanonical ==
    (/\ script = MergeSplitScenario
     /\ CanonicalOrder(origin)
     /\ HalfCount(origin) = 1
     /\ InLimits(HalfUnits(origin)))
        => /\ step = 1 => Markers(lines[1].children)
                            = [i \in 1..(FullCount(origin) + 1) |-> "fa-star"]
           /\ step = 2 => Markers(lines[1].children) = origin

\* the merge and the split have both been applied to such a line
C9_Witness ==
    /\ script = MergeSplitScenario
    /\ step = 2
    /\ origin = <<"fa-star", "fa-star", "fa-star-half-o">>
    /\ LastAccepted(1, -1)

\* total of line 1 after each step of RemoveScenario from two full stars
RemoveScenarioTotals == <<4, 6, 7, 8, 6, 4, 2, 2>>

\* C10 as stated: from two full stars, after +1, +0.5, +0.5 (totals 3, 3.5, 4)
\* the third -1 finds the total at 1, is rejected and leaves it at 1.
C10_ThirdRemoveBlocked ==
    (script = RemoveScenario /\ origin = <<"fa-star", "fa-star">>)
        => /\ step \in 0..3 => HalfUnits(lines[1].children) = RemoveScenarioTotals[step + 1]
           /\ step = 5 => HalfUnits(lines[1].children) = 2
           /\ step = 6 => (HalfUnits(lines[1].children) = 2 /\ ~last.accepted)

\* C10 amended: from two full stars, after +1, +0.5, +0.5 (totals 3, 3.5, 4)
\* three -1 are accepted (totals 3, 2, 1) and the fourth -1 is rejected, the
\* total staying at 1.
C10_FourthRemoveBlocked ==
    (script = RemoveScenario /\ origin = <<"fa-star", "fa-star">>)
        => /\ HalfUnits(lines[1].children) = RemoveScenarioTotals[step + 1]
           /\ step \in 1..6 => LastAccepted(1, script[step])
           /\ step = 7 => LastRejected(1, -2)

\* the fourth -1 has been pressed
C10_Witness ==
    /\ script = RemoveScenario
    /\ origin = <<"fa-star", "fa-star">>
    /\ step = 7
    /\ FullCount(lines[1].children) = 1

\* number of children of a line carrying a class
ClassCount(children, cls) == Len(SelectSeq(children, LAMBDA c : c = cls))

\* the other of the two weights
OtherWeight(weight) == IF weight = "bold" THEN "normal" ELSE "bold"

\* C11: once initialized, however often initializeStarCounter is invoked again
\* between buttons and clicks, every line has exactly one control region (of
\* four buttons), one count display and one click listener, and the page has
\* exactly one total display.
C11_NothingDuplicated ==
    Initialized =>
        /\ \A l \in DOMAIN lines :
              /\ ClassCount(lines[l].children, "star-controls") = 1
              /\ ClassCount(lines[l].children, "star-count") = 1
              /\ lines[l].handlers = 1
        /\ Len(buttons) = 4
        /\ totalRegions = 1

\* initializeStarCounter has been invoked again after a click on line 2
C11_Witness ==
    /\ last.op = "init"
    /\ Len(lines) = 2
    /\ lines[2].weight = "normal"

\* C12: initializeStarCounter on a page without lines emits one warning and
\* creates nothing: no count display, no control region, no total display.
C12_NoLinesOnlyWarns ==
    [][(last'.op = "init" /\ Len(lines) = 0)
          => /\ warnings' = warnings + 1
             /\ lines' = <<>>
             /\ totalRegions' = 0
             /\ totalText' = ""
             /\ ~cachedTotalDisplay']_vars

\* initializeStarCounter has run twice on a page without lines
C12_Witness ==
    /\ last.op = "init"
    /\ Len(lines) = 0
    /\ warnings = 2
    /\ totalRegions = 0

\* C13: a button, accepted or rejected, leaves the weight of every line's
\* count display as it was.
C13_ButtonKeepsWeight ==
    [][last'.op = "button"
          => \A l \in DOMAIN lines : lines'[l].weight = lines[l].weight]_vars

\* +1 has been accepted on a line whose display a click had made normal
C13_Witness ==
    /\ LastAccepted(1, 2)
    /\ lines[1].weight = "normal"
    /\ FullCount(lines[1].children) = 4

\* C14: a click on a line flips the weight of that line's count display to the
\* other of bold and normal and changes nothing else on the page.
C14_ClickFlipsWeightOnly ==
    [][last'.op = "click"
          => /\ lines[last'.line].weight \in {"bold", "normal"}
             /\ lines' = [lines EXCEPT ![last'.line].weight = OtherWeight(@)]
             /\ totalText' = totalText
             /\ totalRegions' = totalRegions
             /\ warnings' = warnings]_vars

\* line 1 has been clicked back to bold next to a line left as it was
C14_Witness ==
    /\ last.op = "click"
    /\ last.line = 1
    /\ Len(lines) = 2
    /\ lines[1].weight = "bold"
    /\ lines[2].weight = "bold"

\* C15: the first initialization leaves every line's count display normal, so
\* that the first click makes it bold.
C15_StartsNormal ==
    [][(last.op = "load" /\ last'.op = "init")
          => \A l \in DOMAIN lines : lines'[l].weight = "normal"]_vars

\* C16 as stated: on any line, a button changes the icons exactly when the
\* total plus the change is within [1, 5].
C16_ChangesIffInRangeAny ==
    [][last'.op = "button"
          => ((Markers(lines'[last'.line].children) # Markers(lines[last'.line].children))
                 <=> InLimits(HalfUnits(lines[last'.line].children) + last'.change))]_vars

\* C16 amended: on a line that holds a full star or at most one half star, a
\* button changes the icons exactly when the total plus the change is within
\* [1, 5]; on four full stars and a half star +0.5 gives five full stars.
C16_ChangesIffInRange ==
    [][last'.op = "button"
          => LET before == lines[last'.line].children
                 after  == lines'[last'.line].children
             IN  /\ (FullCount(before) >= 1 \/ HalfCount(before) <= 1)
                       => ((Markers(after) # Markers(before))
                              <=> InLimits(HalfUnits(before) + last'.change))
                 /\ (/\ Markers(before) = <<"fa-star", "fa-star", "fa-star", "fa-star",
                                            "fa-star-half-o">>
                     /\ last'.change = 1)
                       => Markers(after) = [i \in 1..5 |-> "fa-star"]]_vars

\* +0.5 has been accepted at four and a half stars: five full stars, no half
C16_Witness ==
    /\ LastAccepted(1, 1)
    /\ Len(lines) = 1
    /\ Markers(lines[1].children) = [i \in 1..5 |-> "fa-star"]
    /\ lines[1].text = "5 STARS"

\* C17: on a line with at most one half star, a button whose change keeps the
\* total within [1, 5] changes the total by exactly that change.
C17_AcceptedChangesByDelta ==
    [][(/\ last'.op = "button"
        /\ HalfCount(lines[last'.line].children) <= 1
        /\ InLimits(HalfUnits(lines[last'.line].children) + last'.change))
          => HalfUnits(lines'[last'.line].children)
                = HalfUnits(lines[last'.line].children) + last'.change]_vars

\* -0.5 has turned the last of three full stars into a half star
C17_Witness ==
    /\ LastAccepted(1, -1)
    /\ Len(lines) = 1
    /\ Markers(lines[1].children) = <<"fa-star", "fa-star", "fa-star-half-o">>
    /\ lines[1].text = "2.5 STARS"
    /\ lines[1].weight = "bold"

\* C18: a button of one line leaves every other line as it was: icons, text,
\* colour and weight.
C18_OtherLinesUntouched ==
    [][last'.op = "button"
          => \A k \in DOMAIN lines : k # last'.line => lines'[k] = lines[k]]_vars

\* a button of line 1 has been accepted on a page of two lines
C18_Witness ==
    /\ LastAccepted(1, -2)
    /\ Len(lines) = 2
    /\ HalfUnits(lines[2].children) = 3
    /\ lines[2].text = "1.5 STARS"

\* C19: invoking initializeStarCounter again on an initialized page changes no
\* line (icons, text, colour, weight) and not the total display.
C19_ReinitializeChangesNothing ==
    [][(last.op # "load" /\ last'.op = "init" /\ Len(lines) >= 1)
          => /\ lines' = lines
             /\ totalText' = totalText
             /\ totalRegions' = totalRegions]_vars

\* initializeStarCounter has been invoked again on a line clicked to normal
C19_Witness ==
    /\ last.op = "init"
    /\ Len(lines) = 1
    /\ lines[1].weight = "normal"
    /\ lines[1].text = "3.5 STARS"

\* C20: once initialized, on a line in canonical order with a total within
\* [1, 5] some button changes the icons; below 5, +0.5 is accepted and gives the
\* canonical line half a star higher, and above 1, -0.5 is accepted and gives
\* the canonical line half a star lower, so every total of 1, 1.5, .. 5 can be
\* reached from it.
C20_NeverStuck ==
    Initialized =>
        \A l \in DOMAIN lines :
            LET now  == lines[l].children
                up   == handleStarChange(lines[l], 1).children
                down == handleStarChange(lines[l], -1).children
            IN  (CanonicalOrder(now) /\ InLimits(HalfUnits(now)))
                    => /\ \E b \in DOMAIN buttons :
                             handleStarChange(lines[l], buttons[b].change).children # now
                       /\ HalfUnits(now) < 10
                             => (HalfUnits(up) = HalfUnits(now) + 1 /\ CanonicalOrder(up))
                       /\ HalfUnits(now) > 2
                             => (HalfUnits(down) = HalfUnits(now) - 1 /\ CanonicalOrder(down))

\* +0.5 has taken line 1 up to five stars, next to a line without icons
C20_Witness ==
    /\ LastAccepted(1, 1)
    /\ Len(lines) = 2
    /\ HalfUnits(lines[1].children) = 10
    /\ CanonicalOrder(lines[1].children)
    /\ lines[2].children = <<"star-count", "star-controls">>

====
